---- MODULE Spec2Model ----
(***************************************************************************)
(* The Binance portfolio dashboard (BinancePortfolio component): the       *)
(* cache in localStorage, the aggregation of an API response               *)
(* (calculateValues) and the refresh controller (mount effect, 30 s        *)
(* interval, Retry button, fetchPortfolioData).                            *)
(*                                                                         *)
(* JavaScript numbers are modelled as exact rationals n/d plus NaN and the *)
(* two infinities; `undefined` is a value of its own.  Rounding of IEEE    *)
(* doubles is not modelled.                                                *)
(***************************************************************************)
EXTENDS Integers, Sequences, FiniteSets, TLC

VARIABLES
    phase,            \* "init" (not yet mounted), "mounted", "unmounted"
    storage,          \* localStorage: the four keys -> stored item
    storageEnabled,   \* FALSE: every localStorage access throws
    portfolioData,    \* useState portfolioData
    spotHoldings,     \* useState spotHoldings
    marginHoldings,   \* useState marginHoldings
    futuresHoldings,  \* useState futuresHoldings
    isLoading,        \* useState isLoading
    isRefreshing,     \* useState isRefreshing
    error,            \* useState error (Null or a message)
    fetches,          \* the calls of fetchPortfolioData, in start order
    intervalActive,   \* the setInterval timer is armed
    clock,            \* the wall clock, in timer periods
    lastSuccess,      \* history: the successful responses handled while mounted
    ev,               \* the last event handled (history)
    response,         \* response.data of the call in flight, where the
                      \* specification fixes it before the call settles
    isChatLoading,    \* useState isChatLoading
    queries,          \* the calls of handlePortfolioQuery, in start order
    returned          \* what the last call to return has returned (history)

vars == <<phase, storage, storageEnabled, portfolioData, spotHoldings,
          marginHoldings, futuresHoldings, isLoading, isRefreshing, error,
          fetches, intervalActive, clock, lastSuccess, ev, response,
          isChatLoading, queries, returned>>

----------------------------------------------------------------------------
(* Bounds of the model. *)

MaxFetches == 3
MaxQueries == 2

----------------------------------------------------------------------------
(* JavaScript values. *)

Null == "null"

Undefined == [k |-> "undefined", n |-> 0, d |-> 1]
NaN == [k |-> "NaN", n |-> 0, d |-> 1]
Infinity == [k |-> "Infinity", n |-> 0, d |-> 1]
NegInfinity == [k |-> "-Infinity", n |-> 0, d |-> 1]
\* null, as a JSON document carries it
JsonNull == [k |-> "null", n |-> 0, d |-> 1]

Abs(x) == IF x < 0 THEN -x ELSE x

RECURSIVE Gcd(_, _)
Gcd(a, b) == IF b = 0 THEN a ELSE Gcd(b, a % b)

\* The rational n/d in lowest terms, d > 0.
Rat(n, d) ==
    LET s == IF d < 0 THEN -1 ELSE 1
        g == Gcd(Abs(n), Abs(d))
    IN  [k |-> "fin", n |-> (s * n) \div g, d |-> (s * d) \div g]

Fin(x) == [k |-> "fin", n |-> x, d |-> 1]

IsFin(a) == a.k = "fin"
Sign(a) ==
    CASE a.k = "Infinity" -> 1
      [] a.k = "-Infinity" -> -1
      [] a.k = "fin" -> (IF a.n > 0 THEN 1 ELSE IF a.n < 0 THEN -1 ELSE 0)
      [] OTHER -> 0
SignedInf(s) == IF s > 0 THEN Infinity ELSE NegInfinity

\* a + b
Add(a, b) ==
    CASE a.k \in {"NaN", "undefined"} \/ b.k \in {"NaN", "undefined"} -> NaN
      [] IsFin(a) /\ IsFin(b) -> Rat(a.n * b.d + b.n * a.d, a.d * b.d)
      [] IsFin(a) -> b
      [] IsFin(b) -> a
      [] OTHER -> IF a.k = b.k THEN a ELSE NaN

\* a * b
Mul(a, b) ==
    CASE a.k \in {"NaN", "undefined"} \/ b.k \in {"NaN", "undefined"} -> NaN
      [] IsFin(a) /\ IsFin(b) -> Rat(a.n * b.n, a.d * b.d)
      [] OTHER -> IF Sign(a) * Sign(b) = 0 THEN NaN
                  ELSE SignedInf(Sign(a) * Sign(b))

\* a / b
Div(a, b) ==
    CASE a.k \in {"NaN", "undefined"} \/ b.k \in {"NaN", "undefined"} -> NaN
      [] IsFin(a) /\ IsFin(b) ->
            IF b.n # 0 THEN Rat(a.n * b.d, a.d * b.n)
            ELSE IF a.n = 0 THEN NaN ELSE SignedInf(Sign(a))
      [] IsFin(b) -> SignedInf(Sign(a) * (IF Sign(b) < 0 THEN -1 ELSE 1))
      [] IsFin(a) -> Fin(0)
      [] OTHER -> NaN

\* a > 0
Gt0(a) == Sign(a) > 0

\* isFinite(a)
isFinite(a) == IsFin(a)

\* Number(x): undefined converts to NaN, null to 0, a number to itself.
Number(x) ==
    IF x.k = "undefined" THEN NaN ELSE IF x.k = "null" THEN Fin(0) ELSE x

\* a || b on numbers: NaN and 0 are falsy.
OrElse(a, b) == IF a.k = "NaN" \/ (IsFin(a) /\ a.n = 0) THEN b ELSE a

----------------------------------------------------------------------------
(* The aggregation of one API response: calculateValues and validatedData. *)
(*                                                                         *)
(* A raw record key is the sequence of its parts between '_' characters,   *)
(* each part a sequence of tokens: "BTCUSDT_futures" is                    *)
(* << <<"BTC", "USDT">>, <<"futures">> >>.  A raw record carries the four  *)
(* fields the code reads, under the names of the processed holding:        *)
(* amount (total / net_asset / amount), price_usd (price_usd /             *)
(* current_price), total_usd (total_usd / net_asset_usd / usd_value) and   *)
(* change_24h.  A symbol is a sequence of tokens.                          *)
(* The fields a processed holding only passes on to the table view         *)
(* (avg_buy_price, pnl, pnl_percentage, first_buy_time, last_buy_time) are *)
(* left out.                                                               *)

\* String.prototype.replace(tok, ''): the first occurrence is removed.
RECURSIVE RemoveFirst(_, _)
RemoveFirst(s, tok) ==
    IF s = <<>> THEN <<>>
    ELSE IF Head(s) = tok THEN Tail(s)
    ELSE <<Head(s)>> \o RemoveFirst(Tail(s), tok)

\* key.split('_')[0], and for futures .replace('USDT', '')
SymbolOf(key, seg) ==
    IF seg = "futures" THEN RemoveFirst(key[1], "USDT") ELSE key[1]

\* assetValues.get(symbol) || 0 on the insertion-ordered Map
RECURSIVE MapGet(_, _)
MapGet(m, a) ==
    IF m = <<>> THEN Fin(0)
    ELSE IF Head(m).asset = a THEN OrElse(Head(m).value, Fin(0))
    ELSE MapGet(Tail(m), a)

MapHas(m, a) == \E i \in 1..Len(m) : m[i].asset = a

\* assetValues.set(symbol, value): an existing key keeps its place.
MapSet(m, a, v) ==
    IF MapHas(m, a)
    THEN [i \in 1..Len(m) |-> IF m[i].asset = a THEN [asset |-> a, value |-> v]
                                                ELSE m[i]]
    ELSE Append(m, [asset |-> a, value |-> v])

\* The body of one forEach callback over a segment's entries.
ProcessEntry(acc, e, seg) ==
    IF ~e.isObject THEN acc
    ELSE
    LET symbol == SymbolOf(e.key, seg)
        amount == OrElse(Number(e.h.amount), Fin(0))
        price_usd == OrElse(Number(e.h.price_usd), Fin(0))
        total_usd == OrElse(Number(e.h.total_usd), Mul(amount, price_usd))
        change_24h == IF e.h.change_24h # Undefined THEN Number(e.h.change_24h)
                      ELSE Undefined
        withChange == change_24h # Undefined /\ isFinite(change_24h)
    IN  IF Gt0(amount) /\ isFinite(amount) /\ isFinite(price_usd) /\ Gt0(total_usd)
        THEN [value |-> Add(acc.value, total_usd),
              uniqueAssets |-> acc.uniqueAssets \cup {symbol},
              assetValues |-> MapSet(acc.assetValues, symbol,
                                     Add(MapGet(acc.assetValues, symbol), total_usd)),
              totalWeightedChange |->
                  IF withChange
                  THEN Add(acc.totalWeightedChange, Mul(change_24h, total_usd))
                  ELSE acc.totalWeightedChange,
              totalValueWithChange |->
                  IF withChange THEN Add(acc.totalValueWithChange, total_usd)
                  ELSE acc.totalValueWithChange,
              processed |-> Append(acc.processed,
                                   [symbol |-> symbol, amount |-> amount,
                                    price_usd |-> price_usd, total_usd |-> total_usd,
                                    change_24h |-> change_24h])]
        ELSE acc

RECURSIVE ProcessEntries(_, _, _)
ProcessEntries(acc, entries, seg) ==
    IF entries = <<>> THEN acc
    ELSE ProcessEntries(ProcessEntry(acc, Head(entries), seg), Tail(entries), seg)

\* One segment: its total and its list start empty, the maps are shared.
ProcessSegment(acc, holdings, seg) ==
    LET start == [acc EXCEPT !.value = Fin(0), !.processed = <<>>]
    IN  IF holdings.present THEN ProcessEntries(start, holdings.entries, seg)
        ELSE start

\* Array.prototype.sort((a, b) => b.value - a.value): stable, descending.
SortsBefore(x, y) ==
    LET diff == Add(y.value, Mul(Fin(-1), x.value))   \* compare(x, y)
    IN  Sign(diff) < 0

RECURSIVE InsertSorted(_, _)
InsertSorted(s, x) ==
    IF s = <<>> THEN <<x>>
    ELSE IF SortsBefore(x, Head(s)) THEN <<x>> \o s
    ELSE <<Head(s)>> \o InsertSorted(Tail(s), x)

RECURSIVE SortByValueDesc(_)
SortByValueDesc(s) ==
    IF s = <<>> THEN <<>>
    ELSE InsertSorted(SortByValueDesc(SubSeq(s, 1, Len(s) - 1)), s[Len(s)])

\* The static symbol -> sector table (the rows the model's symbols use).
sectorMap ==
    [asset \in {<<"BTC">>, <<"ETH">>, <<"SOL">>, <<"BNB">>} |->
        CASE asset = <<"BTC">> -> "Store of Value"
          [] asset = <<"ETH">> -> "Smart Contract Platform"
          [] asset = <<"SOL">> -> "Smart Contract Platform"
          [] asset = <<"BNB">> -> "Exchange Token"]

\* sectorMap is an object literal: a name it does not define is looked up
\* in Object.prototype, where 'constructor' is the function Object.
ObjectPrototype ==
    [asset \in {<<"constructor">>} |-> "function Object() { [native code] }"]

\* sectorMap[asset] || 'Other'
mapAssetToSector(asset) ==
    IF asset \in DOMAIN sectorMap THEN sectorMap[asset]
    ELSE IF asset \in DOMAIN ObjectPrototype THEN ObjectPrototype[asset]
    ELSE "Other"

\* The entries pushed for the positive values of a Map, with percentages.
RECURSIVE AllocationOf(_, _)
AllocationOf(m, total) ==
    IF m = <<>> THEN <<>>
    ELSE LET rest == AllocationOf(SubSeq(m, 1, Len(m) - 1), total)
             x == m[Len(m)]
         IN  IF Gt0(x.value)
             THEN Append(rest, [asset |-> x.asset, value |-> x.value,
                                percentage |-> Mul(Div(x.value, total), Fin(100))])
             ELSE rest

\* sectorValues: the asset values summed per sector, in insertion order.
RECURSIVE SectorValues(_)
SectorValues(m) ==
    IF m = <<>> THEN <<>>
    ELSE LET rest == SectorValues(SubSeq(m, 1, Len(m) - 1))
             x == m[Len(m)]
             sector == mapAssetToSector(x.asset)
         IN  IF Gt0(x.value)
             THEN MapSet(rest, sector, Add(MapGet(rest, sector), x.value))
             ELSE rest

\* What calculateValues computes and returns once the three segments are
\* processed; `futures` carries the maps and sums of all three.
CalculatedValues(spot, margin, futures) ==
    LET averageChange ==
            IF Gt0(futures.totalValueWithChange)
            THEN Div(futures.totalWeightedChange, futures.totalValueWithChange)
            ELSE Fin(0)
        calculatedTotalValue == Add(Add(spot.value, margin.value), futures.value)
        positive == Gt0(calculatedTotalValue)
    IN  [totalValue |-> calculatedTotalValue,
         spotValue |-> spot.value,
         marginValue |-> margin.value,
         futuresValue |-> futures.value,
         uniqueAssetCount |-> Cardinality(futures.uniqueAssets),
         assetAllocation |->
             IF positive
             THEN SortByValueDesc(AllocationOf(futures.assetValues, calculatedTotalValue))
             ELSE <<>>,
         sectorAllocation |->
             IF positive
             THEN SortByValueDesc(AllocationOf(SectorValues(futures.assetValues),
                                               calculatedTotalValue))
             ELSE <<>>,
         averageChange |-> averageChange,
         processedSpotHoldings |-> spot.processed,
         processedMarginHoldings |-> margin.processed,
         processedFuturesHoldings |-> futures.processed]

calculateValues(data) ==
    LET acc0 == [value |-> Fin(0), uniqueAssets |-> {}, assetValues |-> <<>>,
                 totalWeightedChange |-> Fin(0), totalValueWithChange |-> Fin(0),
                 processed |-> <<>>]
        spot == ProcessSegment(acc0, data.spot_holdings, "spot")
        margin == ProcessSegment(spot, data.margin_holdings, "margin")
        futures == ProcessSegment(margin, data.futures_holdings, "futures")
    IN  CalculatedValues(spot, margin, futures)

\* Object.keys(h || {}).length
KeyCount(holdings) == IF holdings.present THEN Len(holdings.entries) ELSE 0

\* A time string of toLocaleTimeString(); InvalidDate prints "Invalid Date".
InvalidDate == 0 - 1
TimeString(t) == [time |-> t, cached |-> FALSE]

\* Variant: holdings_count is always the number of raw records.
holdings_count_AlwaysRawCount(uniqueAssetCount, data) ==
    KeyCount(data.spot_holdings) + KeyCount(data.margin_holdings)
        + KeyCount(data.futures_holdings)

\* validatedData.holdings_count
holdings_count(uniqueAssetCount, data) ==
    IF uniqueAssetCount > 0 THEN uniqueAssetCount
    ELSE KeyCount(data.spot_holdings) + KeyCount(data.margin_holdings)
         + KeyCount(data.futures_holdings)

\* The snapshot installed after a successful fetch at time `now`, from
\* c = calculatedValues and the response data.
validatedData(c, data, now) ==
        [total_value |-> IF Gt0(c.totalValue) THEN c.totalValue ELSE Fin(0),
         change_24h |->
             IF c.averageChange # Undefined /\ isFinite(c.averageChange)
             THEN c.averageChange
             ELSE IF isFinite(Number(data.change_24h)) THEN Number(data.change_24h)
                  ELSE Fin(0),
         holdings_count |-> holdings_count(c.uniqueAssetCount, data),
         spot_value |-> IF Gt0(c.spotValue) THEN c.spotValue ELSE Fin(0),
         margin_value |-> IF Gt0(c.marginValue) THEN c.marginValue ELSE Fin(0),
         futures_value |-> IF Gt0(c.futuresValue) THEN c.futuresValue ELSE Fin(0),
         asset_allocation |-> [present |-> TRUE, items |-> c.assetAllocation],
         sector_allocation |-> [present |-> TRUE, items |-> c.sectorAllocation],
         last_updated |-> TimeString(now)]

----------------------------------------------------------------------------
(* Component state, the fallback sample and the API outcomes. *)

Absent == [present |-> FALSE, items |-> <<>>]

\* useState initial value of portfolioData (constructed at time 0).
InitialPortfolioData ==
    [total_value |-> Fin(0), change_24h |-> Fin(0), holdings_count |-> 0,
     spot_value |-> Fin(0), margin_value |-> Fin(0), futures_value |-> Fin(0),
     asset_allocation |-> Absent, sector_allocation |-> Absent,
     last_updated |-> TimeString(0)]

SampleHolding(sym, amount, price, total, change) ==
    [symbol |-> <<sym>>, amount |-> amount, price_usd |-> Fin(price),
     total_usd |-> Fin(total), change_24h |-> change]

\* The hardcoded fallback sample.
FallbackPortfolioData(now) ==
    [total_value |-> Rat(3456789, 100), change_24h |-> Rat(25, 10),
     holdings_count |-> 12,
     spot_value |-> Rat(1893245, 100), margin_value |-> Rat(825432, 100),
     futures_value |-> Rat(738112, 100),
     asset_allocation |-> Absent, sector_allocation |-> Absent,
     last_updated |-> TimeString(now)]

FallbackSpotHoldings ==
    << SampleHolding("BTC", Rat(45, 100), 42500, 19125, Rat(23, 10)),
       SampleHolding("ETH", Rat(325, 100), 2800, 9100, Rat(18, 10)),
       SampleHolding("SOL", Rat(428, 10), 135, 5778, Rat(-7, 10)) >>

FallbackMarginHoldings ==
    << SampleHolding("BTC", Rat(12, 100), 42500, 5100, Rat(23, 10)),
       SampleHolding("ETH", Rat(115, 100), 2800, 3220, Rat(18, 10)) >>

FallbackFuturesHoldings ==
    << SampleHolding("BTC", Rat(8, 100), 42500, 3400, Rat(23, 10)),
       SampleHolding("ETH", Rat(142, 100), 2800, 3976, Rat(18, 10)) >>

\* Raw API records and payloads the backend answers with.
Raw(sym, seg, amount, price, total, change) ==
    [key |-> <<sym, <<seg>>>>, isObject |-> TRUE,
     h |-> [amount |-> amount, price_usd |-> price, total_usd |-> total,
            change_24h |-> change]]

Holdings(entries) == [present |-> TRUE, entries |-> entries]
NoHoldings == [present |-> FALSE, entries |-> <<>>]

ApiData ==
    << \* a portfolio over the three segments, with one malformed record
       [spot_holdings |-> Holdings(<<
            Raw(<<"BTC">>, "spot", Fin(1), Fin(50000), Fin(50000), Fin(10)),
            Raw(<<"ETH">>, "spot", Fin(2), Fin(2000), Fin(4000), Fin(-5)),
            Raw(<<"XYZ">>, "spot", Fin(-1), Fin(100), Fin(-100), Undefined) >>),
        margin_holdings |-> Holdings(<<
            Raw(<<"BTC">>, "margin", Fin(1), Fin(50000), Undefined, Undefined) >>),
        futures_holdings |-> Holdings(<<
            Raw(<<"BTC", "USDT">>, "futures", Fin(2), Fin(50000), Fin(100000), Fin(10)) >>),
        change_24h |-> Fin(3)],
       \* an account that holds nothing
       [spot_holdings |-> Holdings(<<>>),
        margin_holdings |-> NoHoldings,
        futures_holdings |-> NoHoldings,
        change_24h |-> Undefined] >>

\* No response fixed: the outcome is drawn when the call settles.
NoResponse ==
    [spot_holdings |-> NoHoldings, margin_holdings |-> NoHoldings,
     futures_holdings |-> NoHoldings, change_24h |-> Undefined]

\* calculateValues and validatedData of each payload, at each time the
\* clock can show (tabulated once).
Calculated == [i \in 1..Len(ApiData) |-> calculateValues(ApiData[i])]
Validated ==
    [i \in 1..Len(ApiData) |->
        [t \in 0..MaxFetches |-> validatedData(Calculated[i], ApiData[i], t)]]

\* What one call of ApiService.getBinanceHoldings() ends in.
Success(i) == [kind |-> "success", data |-> i, message |-> "", isError |-> TRUE]
Outcomes ==
    { Success(i) : i \in 1..Len(ApiData) }
    \cup { \* a response whose status is not 'success', with data.message
           [kind |-> "status", data |-> 0, message |-> m, isError |-> TRUE]
               : m \in {"", "Binance API unavailable"} }
    \cup { \* the promise rejects: with an Error, or with another value
           [kind |-> "throw", data |-> 0, message |-> "Network Error", isError |-> TRUE],
           [kind |-> "throw", data |-> 0, message |-> "", isError |-> FALSE] }

\* Variant: the default message of a response without data.message is left out.
ThrownMessage_NoDefault(out) == out.message

\* The Error that reaches the catch block, and the string setError gets.
ThrownMessage(out) ==
    IF out.kind = "status"
    THEN (IF out.message # "" THEN out.message ELSE "Failed to fetch portfolio data")
    ELSE out.message

ErrorMessage(out) ==
    IF out.isError THEN ThrownMessage(out) ELSE "Unknown error occurred"

----------------------------------------------------------------------------
(* CacheStore: localStorage, JSON, loadCachedData and saveDataToCache. *)

\* The four keys, in the order the code reads and writes them:
\* binance_portfolio_data, binance_spot_holdings, binance_margin_holdings,
\* binance_futures_holdings.
CacheKeys == <<"data", "spot", "margin", "futures">>

\* A stored item: none (getItem gives null), corrupt (JSON.parse throws) or
\* json (val is what JSON.parse gives back).
NoSnapshot == [st |-> "none", val |-> InitialPortfolioData]
NoList == [st |-> "none", val |-> <<>>]
CorruptSnapshot == [st |-> "corrupt", val |-> InitialPortfolioData]
CorruptList == [st |-> "corrupt", val |-> <<>>]
Item(v) == [st |-> "json", val |-> v]

EmptyStorage ==
    [data |-> NoSnapshot, spot |-> NoList, margin |-> NoList, futures |-> NoList]

\* JSON.parse(JSON.stringify(x)) on a number: a non-finite number becomes
\* null; undefined stays undefined (the property is left out).
JsonNumber(x) == IF x.k \in {"NaN", "Infinity", "-Infinity"} THEN JsonNull ELSE x

JsonAllocation(a) ==
    [present |-> a.present,
     items |-> [i \in 1..Len(a.items) |->
                   [asset |-> a.items[i].asset,
                    value |-> JsonNumber(a.items[i].value),
                    percentage |-> JsonNumber(a.items[i].percentage)]]]

JsonSnapshot(p) ==
    [total_value |-> JsonNumber(p.total_value),
     change_24h |-> JsonNumber(p.change_24h),
     holdings_count |-> p.holdings_count,
     spot_value |-> JsonNumber(p.spot_value),
     margin_value |-> JsonNumber(p.margin_value),
     futures_value |-> JsonNumber(p.futures_value),
     asset_allocation |-> JsonAllocation(p.asset_allocation),
     sector_allocation |-> JsonAllocation(p.sector_allocation),
     last_updated |-> p.last_updated]

JsonHoldings(list) ==
    [i \in 1..Len(list) |->
        [symbol |-> list[i].symbol,
         amount |-> JsonNumber(list[i].amount),
         price_usd |-> JsonNumber(list[i].price_usd),
         total_usd |-> JsonNumber(list[i].total_usd),
         change_24h |-> JsonNumber(list[i].change_24h)]]

\* new Date(s).toLocaleTimeString() for a stored time string s: the parse of
\* a time-only string is implementation-defined, it gives the time back or
\* an Invalid Date.
DateParse(item) ==
    IF item.st = "json" THEN {item.val.last_updated.time, InvalidDate}
    ELSE {InvalidDate}

\* The place in CacheKeys of the first item whose JSON.parse throws (5: none).
FirstCorrupt(st) ==
    LET bad == {i \in 1..4 : st[CacheKeys[i]].st = "corrupt"}
    IN  IF bad = {} THEN 5 ELSE CHOOSE i \in bad : \A j \in bad : i <= j

\* Variant: no catch around the parse, the load reports whatever is stored.
loadCachedData_ReportsStored(st, enabled, parsed, cur) ==
    [portfolioData |-> cur.portfolioData, spotHoldings |-> cur.spotHoldings,
     marginHoldings |-> cur.marginHoldings, futuresHoldings |-> cur.futuresHoldings,
     ret |-> enabled /\ \E i \in 1..4 : st[CacheKeys[i]].st # "none"]

\* loadCachedData: the state it leaves and the value it returns.  `parsed`
\* is the result of the date parse, `cur` the state before the call.
loadCachedData(st, enabled, parsed, cur) ==
    LET read(i) == enabled /\ st[CacheKeys[i]].st = "json" /\ i < FirstCorrupt(st)
    IN  [portfolioData |->
             IF read(1)
             THEN [st.data.val EXCEPT
                      !.last_updated = [time |-> parsed, cached |-> TRUE]]
             ELSE cur.portfolioData,
         spotHoldings |-> IF read(2) THEN st.spot.val ELSE cur.spotHoldings,
         marginHoldings |-> IF read(3) THEN st.margin.val ELSE cur.marginHoldings,
         futuresHoldings |-> IF read(4) THEN st.futures.val ELSE cur.futuresHoldings,
         ret |-> /\ enabled
                 /\ FirstCorrupt(st) = 5
                 /\ \E i \in 1..4 : st[CacheKeys[i]].st # "none"]

\* How many setItem calls of one save succeed: with the storage disabled
\* the first access throws, else any of them may throw (quota exceeded).
SetItemOutcomes == IF storageEnabled THEN 0..4 ELSE {0}

\* saveDataToCache: the storage it leaves.  `writes` is the number of
\* setItem calls that succeed before one throws (4: none throws).
saveDataToCache(st, enabled, data, spot, margin, futures, writes) ==
    LET n == IF enabled THEN writes ELSE 0
    IN  [data |-> IF n >= 1 THEN Item(JsonSnapshot(data)) ELSE st.data,
         spot |-> IF n >= 2 THEN Item(JsonHoldings(spot)) ELSE st.spot,
         margin |-> IF n >= 3 THEN Item(JsonHoldings(margin)) ELSE st.margin,
         futures |-> IF n >= 4 THEN Item(JsonHoldings(futures)) ELSE st.futures]

----------------------------------------------------------------------------
(* The chat query handler, handlePortfolioQuery.                           *)
(*                                                                         *)
(* A value of a chat message is tagged with its typeof; a string is the    *)
(* sequence of its pieces, " " being white space, and every value carries  *)
(* in s the string a template literal prints for it.                       *)

QString(s) == [t |-> "string", s |-> s]
QUndefined == [t |-> "undefined", s |-> <<"undefined">>]
QNumber == [t |-> "number", s |-> <<"500">>]
QObject == [t |-> "object", s |-> <<"[object Object]">>]

Truthy(v) ==
    CASE v.t = "string" -> v.s # <<>>
      [] v.t = "undefined" -> FALSE
      [] OTHER -> TRUE

\* a || b
QOr(a, b) == IF Truthy(a) THEN a ELSE b

\* String.prototype.trim()
RECURSIVE trimStart(_)
trimStart(s) ==
    IF s # <<>> /\ Head(s) = " " THEN trimStart(Tail(s)) ELSE s

RECURSIVE trimEnd(_)
trimEnd(s) ==
    IF s # <<>> /\ s[Len(s)] = " " THEN trimEnd(SubSeq(s, 1, Len(s) - 1)) ELSE s

trim(s) == trimEnd(trimStart(s))

\* `Error: ${v}`
ErrorText(v) == QString(<<"Error: ">> \o v.s)

\* How ApiService.processBinanceQuery settles: resolved with an object
\* {status, data: {response, message, error}} (hasData: data is an object),
\* resolved with undefined, or rejected with an Error or with another value.
Resolved(status, hasData, response_, message, error_) ==
    [kind |-> "resolved", isObject |-> TRUE, status |-> status,
     hasData |-> hasData, response |-> response_, message |-> message,
     error |-> error_, isError |-> FALSE, thrown |-> <<>>]

ResolvedUndefined ==
    [kind |-> "resolved", isObject |-> FALSE, status |-> QUndefined,
     hasData |-> FALSE, response |-> QUndefined, message |-> QUndefined,
     error |-> QUndefined, isError |-> FALSE, thrown |-> <<>>]

Rejected(isError, message) ==
    [kind |-> "rejected", isObject |-> FALSE, status |-> QUndefined,
     hasData |-> FALSE, response |-> QUndefined, message |-> QUndefined,
     error |-> QUndefined, isError |-> isError, thrown |-> message]

QueryStatuses ==
    {QString(<<"success">>), QString(<<"error">>), QString(<<"pending">>),
     QUndefined}
QueryTexts ==
    {QUndefined, QString(<<>>), QString(<<" ">>),
     QString(<<"Your", " ", "BTC", " ", "is", " ", "up">>), QNumber}
QueryMessages ==
    {QUndefined, QString(<<>>), QString(<<" ">>),
     QString(<<"Rate", " ", "limited">>), QObject}
QueryErrors == {QUndefined, QString(<<"Bad", " ", "request">>)}

QueryOutcomes ==
    { Resolved(st, TRUE, r, m, e) :
        st \in QueryStatuses, r \in QueryTexts, m \in QueryMessages,
        e \in QueryErrors }
    \cup { Resolved(st, FALSE, QUndefined, QUndefined, QUndefined) :
             st \in QueryStatuses }
    \cup { ResolvedUndefined, Rejected(TRUE, <<"Network", " ", "Error">>),
           Rejected(TRUE, <<>>), Rejected(FALSE, <<"timeout">>) }

\* What a block of the handler ends with: a returned {status, data:
\* {response, message}} or a thrown value.
Return(status, response_, message) ==
    [threw |-> FALSE, isError |-> FALSE, thrown |-> <<>>, status |-> status,
     response |-> response_, message |-> message]

Throw(isError, message) ==
    [threw |-> TRUE, isError |-> isError, thrown |-> message,
     status |-> QUndefined, response |-> QUndefined, message |-> QUndefined]

\* The try block after the await.
TryBlock(o) ==
    IF o.kind = "rejected" THEN Throw(o.isError, o.thrown)
    ELSE IF ~o.isObject
    THEN Throw(TRUE, <<"Cannot read properties of undefined (reading 'status')">>)
    ELSE IF o.status = QString(<<"success">>)
    THEN IF o.hasData /\ o.response.t = "string" /\ trim(o.response.s) # <<>>
         THEN Return(o.status, o.response, o.message)
         ELSE IF o.hasData /\ o.message.t = "string" /\ trim(o.message.s) # <<>>
         THEN Return(QString(<<"success">>), o.message, QUndefined)
         ELSE Return(QString(<<"success">>),
                     QString(<<"I received your query, but the API didn't provide a clear response. Please try asking in a different way.">>),
                     QUndefined)
    ELSE IF o.status = QString(<<"error">>)
    THEN Return(QString(<<"error">>),
                ErrorText(QOr(o.message, QOr(o.error, QString(<<"Unknown API error">>)))),
                QOr(o.message, QOr(o.error, QString(<<"Unknown API error">>))))
    ELSE Throw(TRUE, <<"Unexpected API response status: ">> \o o.status.s)

\* The catch block.
CatchBlock(e) ==
    IF e.isError
    THEN Return(QString(<<"error">>), ErrorText(QString(e.thrown)), QString(e.thrown))
    ELSE Return(QString(<<"error">>),
                ErrorText(QString(<<"Unknown error occurred">>)),
                QString(<<"Unknown error occurred">>))

\* Variant: try / finally without the catch block.
handlePortfolioQuery_NoCatch(o) == TryBlock(o)

\* What handlePortfolioQuery returns (or throws) when the backend call
\* has settled as o.
handlePortfolioQuery(o) ==
    IF TryBlock(o).threw THEN CatchBlock(TryBlock(o)) ELSE TryBlock(o)

NoReturn == [id |-> 0, outcome |-> ResolvedUndefined,
             result |-> Throw(FALSE, <<>>)]

----------------------------------------------------------------------------
(* Refresh controller: the mount effect, the interval, Retry and           *)
(* fetchPortfolioData.  The function closes over the state of the render   *)
(* that created it: the mount effect and the interval callback (effect     *)
(* with [] dependencies) hold the first render's function, the Retry       *)
(* button the current render's.                                            *)

NoOutcome == [kind |-> "none", data |-> 0, message |-> "", isError |-> TRUE]

\* History: how many responses with status 'success' were handled while
\* mounted (counted up to 2), and the payload and time of the last one.
NoSuccess == [count |-> 0, data |-> 0, time |-> 0]

Event(type, id, out, writes) ==
    [type |-> type, id |-> id, out |-> out, writes |-> writes]

\* The state variables a render's fetchPortfolioData reads later.
Closure(pd, spot, margin, futures) ==
    [portfolioData |-> pd, spotHoldings |-> spot, marginHoldings |-> margin,
     futuresHoldings |-> futures]

FirstRenderClosure == Closure(InitialPortfolioData, <<>>, <<>>, <<>>)

\* Storage contents a first render may find: left by earlier sessions of
\* this page (whole, or cut short by a throwing setItem), or damaged.
StoredStatesOf(data, spot, margin, futures) ==
    { EmptyStorage,
      saveDataToCache(EmptyStorage, TRUE, data, <<>>, <<>>, <<>>, 4),
      saveDataToCache(EmptyStorage, TRUE, data, spot, margin, futures, 4),
      saveDataToCache(EmptyStorage, TRUE, data, spot, margin, futures, 1),
      [saveDataToCache(EmptyStorage, TRUE, data, spot, margin, futures, 1)
          EXCEPT !.spot = CorruptList],
      [EmptyStorage EXCEPT !.data = CorruptSnapshot] }

StoredStates ==
    StoredStatesOf(Validated[1][0], Calculated[1].processedSpotHoldings,
                   Calculated[1].processedMarginHoldings,
                   Calculated[1].processedFuturesHoldings)

Init ==
    /\ phase = "init"
    /\ storageEnabled \in BOOLEAN
    /\ storage \in (IF storageEnabled THEN StoredStates ELSE {EmptyStorage})
    /\ portfolioData = InitialPortfolioData
    /\ spotHoldings = <<>>
    /\ marginHoldings = <<>>
    /\ futuresHoldings = <<>>
    /\ isLoading = FALSE
    /\ isRefreshing = FALSE
    /\ error = Null
    /\ fetches = <<>>
    /\ intervalActive = FALSE
    /\ clock = 0
    /\ lastSuccess = NoSuccess
    /\ ev = Event("init", 0, NoOutcome, 0)
    /\ response = NoResponse
    /\ isChatLoading = FALSE
    /\ queries = <<>>
    /\ returned = NoReturn

\* Variant: every fetch shows the loading spinner.
StartFetch_AlwaysLoading(isBackgroundRefresh, closure) ==
    /\ isRefreshing' = (IF isBackgroundRefresh THEN TRUE ELSE isRefreshing)
    /\ isLoading' = TRUE
    /\ error' = Null
    /\ fetches' = Append(fetches, [bg |-> isBackgroundRefresh, cap |-> closure,
                                   pending |-> TRUE])

\* fetchPortfolioData, up to the await: the flag of its kind, setError(null)
\* and the call in flight.
StartFetch(isBackgroundRefresh, closure) ==
    /\ isRefreshing' = (IF isBackgroundRefresh THEN TRUE ELSE isRefreshing)
    /\ isLoading' = (IF isBackgroundRefresh THEN isLoading ELSE TRUE)
    /\ error' = Null
    /\ fetches' = Append(fetches, [bg |-> isBackgroundRefresh, cap |-> closure,
                                   pending |-> TRUE])

\* Variant: the snapshot painted from the cache is written back to it.
Mount_PersistsMarker ==
    /\ phase = "init"
    /\ \E parsed \in DateParse(storage.data) :
         LET r == loadCachedData(storage, storageEnabled, parsed,
                                 Closure(portfolioData, spotHoldings,
                                         marginHoldings, futuresHoldings))
         IN  /\ portfolioData' = r.portfolioData
             /\ spotHoldings' = r.spotHoldings
             /\ marginHoldings' = r.marginHoldings
             /\ futuresHoldings' = r.futuresHoldings
             /\ storage' = (IF r.portfolioData.last_updated.cached
                            THEN [storage EXCEPT !.data = Item(r.portfolioData)]
                            ELSE storage)
             /\ StartFetch(r.ret, FirstRenderClosure)
    /\ intervalActive' = TRUE
    /\ phase' = "mounted"
    /\ ev' = Event("mount", 1, NoOutcome, 0)
    /\ UNCHANGED <<storageEnabled, clock, lastSuccess, response,
          isChatLoading, queries, returned>>

\* The mount effect: loadCachedData, the first fetch, setInterval.
Mount ==
    /\ phase = "init"
    /\ \E parsed \in DateParse(storage.data) :
         LET r == loadCachedData(storage, storageEnabled, parsed,
                                 Closure(portfolioData, spotHoldings,
                                         marginHoldings, futuresHoldings))
             hasCachedData == r.ret
         IN  /\ portfolioData' = r.portfolioData
             /\ spotHoldings' = r.spotHoldings
             /\ marginHoldings' = r.marginHoldings
             /\ futuresHoldings' = r.futuresHoldings
             /\ StartFetch(hasCachedData, FirstRenderClosure)
    /\ intervalActive' = TRUE
    /\ phase' = "mounted"
    /\ ev' = Event("mount", 1, NoOutcome, 0)
    /\ UNCHANGED <<storage, storageEnabled, clock, lastSuccess, response,
          isChatLoading, queries, returned>>

\* The interval callback, 30 s after the last one: fetchPortfolioData(true).
TimerTick ==
    /\ intervalActive
    /\ Len(fetches) < MaxFetches
    /\ clock' = clock + 1
    /\ StartFetch(TRUE, FirstRenderClosure)
    /\ ev' = Event("tick", Len(fetches) + 1, NoOutcome, 0)
    /\ UNCHANGED <<phase, storage, storageEnabled, portfolioData, spotHoldings,
                   marginHoldings, futuresHoldings, intervalActive, lastSuccess, response,
          isChatLoading, queries, returned>>

\* Variant: the Retry button is rendered whatever the error state is.
Retry_AlwaysOffered ==
    /\ phase = "mounted"
    /\ Len(fetches) < MaxFetches
    /\ StartFetch(FALSE, Closure(portfolioData, spotHoldings, marginHoldings,
                                 futuresHoldings))
    /\ ev' = Event("retry", Len(fetches) + 1, NoOutcome, 0)
    /\ UNCHANGED <<phase, storage, storageEnabled, portfolioData, spotHoldings,
                   marginHoldings, futuresHoldings, intervalActive, clock, lastSuccess, response,
          isChatLoading, queries, returned>>

\* The Retry button, rendered while error is truthy: fetchPortfolioData(false).
Retry ==
    /\ phase = "mounted"
    /\ error # Null /\ error # ""
    /\ Len(fetches) < MaxFetches
    /\ StartFetch(FALSE, Closure(portfolioData, spotHoldings, marginHoldings,
                                 futuresHoldings))
    /\ ev' = Event("retry", Len(fetches) + 1, NoOutcome, 0)
    /\ UNCHANGED <<phase, storage, storageEnabled, portfolioData, spotHoldings,
                   marginHoldings, futuresHoldings, intervalActive, clock, lastSuccess, response,
          isChatLoading, queries, returned>>

\* Variant: finally clears both flags.
Finally_ClearsBoth(isBackgroundRefresh) ==
    /\ isRefreshing' = FALSE
    /\ isLoading' = FALSE

\* Variant: the finally block clears isLoading only.
Finally_KeepsRefreshing(isBackgroundRefresh) ==
    /\ isRefreshing' = isRefreshing
    /\ isLoading' = (IF isBackgroundRefresh THEN isLoading ELSE FALSE)

\* finally: the flag of the fetch's kind is cleared.
Finally(isBackgroundRefresh) ==
    /\ isRefreshing' = (IF isBackgroundRefresh THEN FALSE ELSE isRefreshing)
    /\ isLoading' = (IF isBackgroundRefresh THEN isLoading ELSE FALSE)

\* The call is settled: its closure is not read again.
Settle(i) ==
    fetches' = [fetches EXCEPT ![i].pending = FALSE, ![i].cap = FirstRenderClosure]

\* Variant: the lists are set, setPortfolioData is left out.
FetchSucceeds_KeepsSnapshot(f, calculatedValues, validated, writes) ==
    /\ spotHoldings' = calculatedValues.processedSpotHoldings
    /\ marginHoldings' = calculatedValues.processedMarginHoldings
    /\ futuresHoldings' = calculatedValues.processedFuturesHoldings
    /\ portfolioData' = portfolioData
    /\ storage' = saveDataToCache(storage, storageEnabled, validated,
                                  f.cap.spotHoldings, f.cap.marginHoldings,
                                  f.cap.futuresHoldings, writes)
    /\ error' = error
    /\ Finally(f.bg)

\* The response has status 'success': the lists and the snapshot computed
\* from it are set, and the snapshot is saved with the closure's lists.
FetchSucceeds(f, calculatedValues, validated, writes) ==
    /\ spotHoldings' = calculatedValues.processedSpotHoldings
    /\ marginHoldings' = calculatedValues.processedMarginHoldings
    /\ futuresHoldings' = calculatedValues.processedFuturesHoldings
    /\ portfolioData' = validated
    /\ storage' = saveDataToCache(storage, storageEnabled, validated,
                                  f.cap.spotHoldings, f.cap.marginHoldings,
                                  f.cap.futuresHoldings, writes)
    /\ error' = error
    /\ Finally(f.bg)

\* Variant: the catch block does not test isBackgroundRefresh.
FetchFails_ShowsBackgroundError(i, out) ==
    LET f == fetches[i]
        fallback == f.cap.portfolioData.total_value = Fin(0)
    IN  /\ error' = ErrorMessage(out)
        /\ portfolioData' =
               (IF fallback THEN FallbackPortfolioData(clock) ELSE portfolioData)
        /\ spotHoldings' = (IF fallback THEN FallbackSpotHoldings ELSE spotHoldings)
        /\ marginHoldings' =
               (IF fallback THEN FallbackMarginHoldings ELSE marginHoldings)
        /\ futuresHoldings' =
               (IF fallback THEN FallbackFuturesHoldings ELSE futuresHoldings)
        /\ storage' = storage
        /\ Finally(f.bg)

\* The catch block: a foreground fetch shows the message and, when its
\* closure's snapshot has total_value 0, installs the fallback sample.
FetchFails(i, out) ==
    LET f == fetches[i]
        fallback == ~f.bg /\ f.cap.portfolioData.total_value = Fin(0)
    IN  /\ error' = (IF f.bg THEN error ELSE ErrorMessage(out))
        /\ portfolioData' =
               (IF fallback THEN FallbackPortfolioData(clock) ELSE portfolioData)
        /\ spotHoldings' = (IF fallback THEN FallbackSpotHoldings ELSE spotHoldings)
        /\ marginHoldings' =
               (IF fallback THEN FallbackMarginHoldings ELSE marginHoldings)
        /\ futuresHoldings' =
               (IF fallback THEN FallbackFuturesHoldings ELSE futuresHoldings)
        /\ storage' = storage
        /\ Finally(f.bg)

\* The continuation of fetchPortfolioData after the await, while mounted.
Resolve ==
    /\ phase = "mounted"
    /\ \E i \in 1..Len(fetches), out \in Outcomes, writes \in SetItemOutcomes :
         /\ fetches[i].pending
         /\ IF out.kind = "success"
            THEN FetchSucceeds(fetches[i], Calculated[out.data],
                               Validated[out.data][clock], writes)
            ELSE writes = 0 /\ FetchFails(i, out)
         /\ Settle(i)
         /\ lastSuccess' =
                (IF out.kind = "success"
                 THEN [count |-> IF lastSuccess.count < 2 THEN lastSuccess.count + 1
                                 ELSE 2,
                       data |-> out.data, time |-> clock]
                 ELSE lastSuccess)
         /\ ev' = Event("resolve", i, out, writes)
    /\ UNCHANGED <<phase, storageEnabled, intervalActive, clock, response,
          isChatLoading, queries, returned>>

\* The same continuation after the unmount: React drops the state updates
\* of an unmounted component, saveDataToCache still runs.
ResolveUnmounted ==
    /\ phase = "unmounted"
    /\ \E i \in 1..Len(fetches), out \in Outcomes, writes \in SetItemOutcomes :
         /\ fetches[i].pending
         /\ IF out.kind = "success"
            THEN storage' = saveDataToCache(storage, storageEnabled,
                                Validated[out.data][clock],
                                fetches[i].cap.spotHoldings,
                                fetches[i].cap.marginHoldings,
                                fetches[i].cap.futuresHoldings, writes)
            ELSE writes = 0 /\ storage' = storage
         /\ Settle(i)
         /\ ev' = Event("resolve", i, out, writes)
    /\ UNCHANGED <<phase, storageEnabled, portfolioData, spotHoldings,
                   marginHoldings, futuresHoldings, isLoading, isRefreshing,
                   error, intervalActive, clock, lastSuccess, response,
          isChatLoading, queries, returned>>

\* Variant: the effect returns no cleanup, the interval stays armed.
Unmount_KeepsInterval ==
    /\ phase = "mounted"
    /\ phase' = "unmounted"
    /\ intervalActive' = intervalActive
    /\ ev' = Event("unmount", 0, NoOutcome, 0)
    /\ UNCHANGED <<storage, storageEnabled, portfolioData, spotHoldings,
                   marginHoldings, futuresHoldings, isLoading, isRefreshing,
                   error, fetches, clock, lastSuccess, response,
          isChatLoading, queries, returned>>

\* The effect's cleanup: clearInterval(intervalId).
Unmount ==
    /\ phase = "mounted"
    /\ phase' = "unmounted"
    /\ intervalActive' = FALSE
    /\ ev' = Event("unmount", 0, NoOutcome, 0)
    /\ UNCHANGED <<storage, storageEnabled, portfolioData, spotHoldings,
                   marginHoldings, futuresHoldings, isLoading, isRefreshing,
                   error, fetches, clock, lastSuccess, response,
          isChatLoading, queries, returned>>

Next == Mount \/ TimerTick \/ Retry \/ Resolve \/ ResolveUnmounted \/ Unmount

Spec == Init /\ [][Next]_vars

\* The continuation of call i: its backend call has settled.
ResolveOf(i) == Resolve /\ ev'.id = i

\* Every backend call of a mounted view settles in the end.
LiveSpec ==
    Init /\ [][Next]_vars /\ \A i \in 1..MaxFetches : WF_vars(ResolveOf(i))

----------------------------------------------------------------------------
(* The aggregation of arbitrary responses: the first fetch after a mount   *)
(* with an empty cache, answered with status 'success' and a response      *)
(* built by AggResponse from the values below.                             *)

\* The values a raw field can hold after JSON.parse: absent, null, a number
\* (1e999 parses to Infinity); NaN stands for a string that is no number.
AggAmounts == {Undefined, Fin(0), Fin(0 - 1), Fin(1), Fin(2), Infinity}
AggPrices == {Undefined, Fin(100), Infinity}
AggTotals == {Undefined, Fin(0), Fin(0 - 100), Fin(100), Fin(300), Infinity}
AggChanges == {Undefined, JsonNull, Fin(10), Fin(0 - 5), NaN}
AggTopChanges == {Undefined, Fin(3), Infinity}
AggSymbols == {"BTC", "SOL", "PEPE", "constructor"}
AggSegments == {"spot", "margin", "futures"}

\* The keys of a segment's records before the '_': "BTC_spot", "BTC_margin",
\* "BTCUSDT_futures", and a futures key with USDT elsewhere than at its end,
\* "USDTBTC_futures".
AggKeys(seg) ==
    IF seg = "futures"
    THEN {<<sym, "USDT">> : sym \in AggSymbols} \cup {<<"USDT", "BTC">>}
    ELSE {<<sym>> : sym \in AggSymbols}

\* Spot records every response of a family starts with.
AggBases ==
    { <<>>,
      << Raw(<<"BTC">>, "spot", Fin(1), Fin(50000), Fin(50000), Fin(10)) >>,
      << Raw(<<"BTC">>, "spot", Fin(1), Fin(50000), Fin(50000), Fin(10)),
         Raw(<<"ETH">>, "spot", Fin(2), Fin(2000), Fin(4000), Fin(0 - 5)) >> }

\* The response with the spot records `base` and one more record r, the
\* last of segment seg.
AggResponse(base, seg, r, top) ==
    [spot_holdings |-> Holdings(IF seg = "spot" THEN Append(base, r) ELSE base),
     margin_holdings |-> IF seg = "margin" THEN Holdings(<<r>>) ELSE NoHoldings,
     futures_holdings |-> IF seg = "futures" THEN Holdings(<<r>>) ELSE Holdings(<<>>),
     change_24h |-> top]

\* The foreground fetch of a mount with an empty cache is in flight.
AggInit ==
    /\ phase = "mounted"
    /\ storageEnabled = TRUE
    /\ storage = EmptyStorage
    /\ portfolioData = InitialPortfolioData
    /\ spotHoldings = <<>>
    /\ marginHoldings = <<>>
    /\ futuresHoldings = <<>>
    /\ isLoading = TRUE
    /\ isRefreshing = FALSE
    /\ error = Null
    /\ fetches = <<[bg |-> FALSE, cap |-> FirstRenderClosure, pending |-> TRUE]>>
    /\ intervalActive = TRUE
    /\ clock = 0
    /\ lastSuccess = NoSuccess
    /\ ev = Event("mount", 1, NoOutcome, 0)
    /\ isChatLoading = FALSE
    /\ queries = <<>>
    /\ returned = NoReturn
    /\ \E base \in AggBases, seg \in AggSegments, a \in AggAmounts,
          p \in AggPrices, t \in AggTotals, c \in AggChanges,
          top \in AggTopChanges :
           \E key \in AggKeys(seg) :
               response = AggResponse(base, seg, Raw(key, seg, a, p, t, c), top)

\* The continuation of fetchPortfolioData for status 'success' and
\* response.data = response.
AggResolve ==
    /\ phase = "mounted"
    /\ fetches[1].pending
    /\ FetchSucceeds(fetches[1], calculateValues(response),
                     validatedData(calculateValues(response), response, clock), 4)
    /\ Settle(1)
    /\ lastSuccess' = [count |-> 1, data |-> 0, time |-> clock]
    /\ ev' = Event("resolve", 1, Success(0), 4)
    /\ UNCHANGED <<phase, storageEnabled, intervalActive, clock, response,
          isChatLoading, queries, returned>>

AggNext == AggResolve

AggSpec == AggInit /\ [][AggNext]_vars

----------------------------------------------------------------------------
(* The chat of a mounted view whose first fetch is in flight: queries are  *)
(* sent and the backend settles them in any order.                         *)

QueryInit ==
    /\ phase = "mounted"
    /\ storageEnabled = TRUE
    /\ storage = EmptyStorage
    /\ portfolioData = InitialPortfolioData
    /\ spotHoldings = <<>>
    /\ marginHoldings = <<>>
    /\ futuresHoldings = <<>>
    /\ isLoading = TRUE
    /\ isRefreshing = FALSE
    /\ error = Null
    /\ fetches = <<[bg |-> FALSE, cap |-> FirstRenderClosure, pending |-> TRUE]>>
    /\ intervalActive = TRUE
    /\ clock = 0
    /\ lastSuccess = NoSuccess
    /\ ev = Event("mount", 1, NoOutcome, 0)
    /\ response = NoResponse
    /\ isChatLoading = FALSE
    /\ queries = <<>>
    /\ returned = NoReturn

\* handlePortfolioQuery up to the await.
SendQuery ==
    /\ Len(queries) < MaxQueries
    /\ isChatLoading' = TRUE
    /\ queries' = Append(queries, "pending")
    /\ UNCHANGED <<phase, storage, storageEnabled, portfolioData, spotHoldings,
                   marginHoldings, futuresHoldings, isLoading, isRefreshing,
                   error, fetches, intervalActive, clock, lastSuccess, ev,
                   response, returned>>

\* handlePortfolioQuery from the await on: the call settles as o, the
\* handler returns or throws, and the finally block runs.
QueryResolve ==
    \E i \in 1..Len(queries), o \in QueryOutcomes :
        /\ queries[i] = "pending"
        /\ returned' = [id |-> i, outcome |-> o, result |-> handlePortfolioQuery(o)]
        /\ isChatLoading' = FALSE
        /\ queries' = [queries EXCEPT ![i] = "settled"]
        /\ UNCHANGED <<phase, storage, storageEnabled, portfolioData,
                       spotHoldings, marginHoldings, futuresHoldings, isLoading,
                       isRefreshing, error, fetches, intervalActive, clock,
                       lastSuccess, ev, response>>

QueryNext == SendQuery \/ QueryResolve

QuerySpec == QueryInit /\ [][QueryNext]_vars

----------------------------------------------------------------------------
(* Properties of the refresh controller. *)

Live == phase = "mounted"

InMemory == <<portfolioData, spotHoldings, marginHoldings, futuresHoldings>>

\* The in-memory state computed from payload i at time t.
InstalledFrom(c, data, t) ==
    <<validatedData(c, data, t), c.processedSpotHoldings,
      c.processedMarginHoldings, c.processedFuturesHoldings>>

ComputedFrom(i, t) == InstalledFrom(calculateValues(ApiData[i]), ApiData[i], t)

FallbackSample(t) ==
    <<FallbackPortfolioData(t), FallbackSpotHoldings, FallbackMarginHoldings,
      FallbackFuturesHoldings>>

\* The last event was the continuation of a fetch, of this kind and result.
Succeeded == ev.type = "resolve" /\ ev.out.kind = "success"
Failed == ev.type = "resolve" /\ ev.out.kind # "success"
AllSettled == \A i \in 1..Len(fetches) : ~fetches[i].pending

\* C1: on mount, the first fetch is a background fetch (isRefreshing set,
\* isLoading not set, neither at its start nor while it is the only fetch)
\* exactly when the load reports a cached payload, i.e. the storage can be
\* read, one of the four keys holds an item and no item fails to parse;
\* otherwise it is a foreground fetch (isLoading set).
C1_MountFetchKind ==
    LET reported == /\ storageEnabled
                    /\ \E i \in 1..4 : storage[CacheKeys[i]].st # "none"
                    /\ \A i \in 1..4 : storage[CacheKeys[i]].st # "corrupt"
    IN  /\ ev.type = "mount" =>
              /\ Len(fetches) = 1 /\ fetches[1].pending
              /\ fetches[1].bg = reported
              /\ isRefreshing = reported
              /\ isLoading = ~reported
        /\ (Len(fetches) = 1 /\ fetches[1].bg) => ~isLoading

C1_Witness ==
    /\ ev.type = "mount" /\ fetches[1].bg /\ isRefreshing
    /\ portfolioData.last_updated.cached

\* C2: right after a fetch with status 'success' completes, the snapshot
\* and the three lists in memory are those computed from its response; and
\* in no reachable state is the snapshot the one computed from a response
\* while a list is not the one computed from that response.
C2_SuccessReplacesAll ==
    /\ (Succeeded /\ Live) => InMemory = ComputedFrom(ev.out.data, clock)
    /\ \A i \in 1..Len(ApiData), t \in 0..clock :
           portfolioData = ComputedFrom(i, t)[1] => InMemory = ComputedFrom(i, t)

C2_Witness ==
    /\ Succeeded /\ Live /\ ev.out.data = 1
    /\ lastSuccess.count = 2
    /\ spotHoldings # <<>>

\* C3: after a successful fetch whose save wrote all four keys, the cache
\* holds the snapshot and the three lists computed from that response, the
\* values the fetch installed in memory.
C3_CacheHoldsInstalled ==
    (Succeeded /\ Live /\ storageEnabled /\ ev.writes = 4) =>
        /\ storage.data = Item(JsonSnapshot(portfolioData))
        /\ storage.spot = Item(JsonHoldings(spotHoldings))
        /\ storage.margin = Item(JsonHoldings(marginHoldings))
        /\ storage.futures = Item(JsonHoldings(futuresHoldings))

\* C4: right after any fetch completes successfully the error is null.
C4_ErrorClearedAfterSuccess ==
    (Succeeded /\ Live) => error = Null

\* C5: right after a foreground fetch fails, error is a message: the
\* thrown Error's message ('Unknown error occurred' when the thrown value
\* is no Error), or for a response with another status its data.message,
\* or 'Failed to fetch portfolio data' when that is missing.
C5_ForegroundFailureMessage ==
    (Failed /\ Live /\ ~fetches[ev.id].bg) =>
        /\ error # Null
        /\ error = CASE ev.out.kind = "throw" /\ ev.out.isError -> ev.out.message
                     [] ev.out.kind = "throw" /\ ~ev.out.isError ->
                            "Unknown error occurred"
                     [] ev.out.kind = "status" /\ ev.out.message # "" ->
                            ev.out.message
                     [] OTHER -> "Failed to fetch portfolio data"

C5_Witness ==
    /\ Failed /\ Live /\ ~fetches[ev.id].bg
    /\ ev.out.kind = "status" /\ ev.out.message = ""
    /\ error = "Failed to fetch portfolio data"

\* C6: when a foreground fetch fails, the fallback sample is installed if
\* no data exists at that moment (the snapshot in memory has total_value 0
\* and is not one painted from the cache), and otherwise the snapshot and
\* the lists in memory stay as they are.
C6_FallbackIffNoData ==
    [][ (ev'.type = "resolve" /\ ev'.out.kind # "success" /\ Live
         /\ ~fetches[ev'.id].bg)
        => IF portfolioData.total_value = Fin(0)
              /\ ~portfolioData.last_updated.cached
           THEN InMemory' = FallbackSample(clock)
           ELSE InMemory' = InMemory ]_vars

\* C7: the step in which a background refresh fails changes neither the
\* snapshot nor the three lists in memory nor the error, and the step in
\* which a background refresh starts leaves the error null.
C7_BackgroundFailureSilent ==
    [][ /\ (ev'.type = "resolve" /\ ev'.out.kind # "success" /\ fetches[ev'.id].bg)
            => (InMemory' = InMemory /\ error' = error)
        /\ (ev'.type \in {"mount", "tick"} /\ fetches'[ev'.id].bg)
            => error' = Null ]_vars

C7_Witness ==
    /\ Failed /\ Live /\ fetches[ev.id].bg
    /\ InMemory = FallbackSample(0)
    /\ error # Null

\* C8: a timer tick happens only while mounted and starts a background
\* fetch; after the unmount the timer is cancelled and no fetch is started.
C8_TicksUntilUnmount ==
    /\ [](ev.type = "tick" =>
             /\ fetches[ev.id].bg
             /\ ev.id = Len(fetches)
             /\ (Live => fetches[ev.id].pending /\ isRefreshing))
    /\ [](phase = "unmounted" => ~intervalActive)
    /\ [][ (ev'.type = "tick" => phase = "mounted" /\ Len(fetches') = Len(fetches) + 1)
           /\ (phase = "unmounted" => Len(fetches') = Len(fetches)) ]_vars

C8_Witness ==
    /\ phase = "unmounted" /\ clock >= 1
    /\ Len(fetches) < MaxFetches
    /\ \E i \in 1..Len(fetches) : fetches[i].pending

\* C9: once every fetch has resolved and more than one of them succeeded,
\* the snapshot and the lists in memory are those computed from the
\* successful response that resolved last.
C9_LastSuccessWins ==
    (Live /\ AllSettled /\ lastSuccess.count = 2) =>
        InMemory = ComputedFrom(lastSuccess.data, lastSuccess.time)

\* C10: a step that starts or completes a background fetch leaves isLoading
\* as it was, and one that starts or completes a foreground fetch leaves
\* isRefreshing as it was.
C10_FlagsSeparate ==
    [][ ev'.id # 0 =>
            IF fetches'[ev'.id].bg THEN isLoading' = isLoading
            ELSE isRefreshing' = isRefreshing ]_vars

C10_Witness ==
    /\ Succeeded /\ Live /\ fetches[ev.id].bg
    /\ isLoading /\ ~isRefreshing

\* C11: the number of fetches grows only in a mount, tick or retry step, by
\* one (the continuation of a failed fetch starts none); a retry step
\* happens only while error is a message and starts a foreground fetch.
C11_OnlyMountTickRetryStart ==
    [][ /\ Len(fetches') # Len(fetches) =>
              /\ ev'.type \in {"mount", "tick", "retry"}
              /\ Len(fetches') = Len(fetches) + 1
        /\ ev'.type = "resolve" => Len(fetches') = Len(fetches)
        /\ ev'.type = "retry" =>
              /\ error # Null
              /\ ~fetches'[ev'.id].bg /\ fetches'[ev'.id].pending
              /\ isLoading' /\ isRefreshing' = isRefreshing ]_vars

C11_Witness ==
    /\ ev.type = "retry" /\ ~fetches[ev.id].bg /\ isLoading
    /\ \E i \in 1..Len(fetches) : i < ev.id /\ ~fetches[i].pending

\* C12: a load that follows a complete save installs the lists that were
\* saved and the saved snapshot, with last_updated the saved time string
\* marked "(cached)".
C12_RoundTrip ==
    [][ (ev'.type = "resolve" /\ ev'.out.kind = "success" /\ storageEnabled
         /\ ev'.writes = 4)
        => \A parsed \in DateParse(storage'.data) :
             LET f == fetches[ev'.id]
                 saved == ComputedFrom(ev'.out.data, clock)[1]
                 r == loadCachedData(storage', TRUE, parsed, FirstRenderClosure)
             IN  /\ r.ret
                 /\ r.spotHoldings = f.cap.spotHoldings
                 /\ r.marginHoldings = f.cap.marginHoldings
                 /\ r.futuresHoldings = f.cap.futuresHoldings
                 /\ r.portfolioData =
                        [saved EXCEPT !.last_updated =
                            [time |-> saved.last_updated.time, cached |-> TRUE]]
      ]_vars

\* C13: a load that throws (storage disabled, an item that does not parse)
\* makes the first fetch a foreground fetch; a save that throws leaves the
\* error as it was and the state computed from the response installed.
C13_StorageThrowSwallowed ==
    [][ /\ (ev'.type = "mount" /\ (~storageEnabled \/ FirstCorrupt(storage) <= 4))
            => (~fetches'[1].bg /\ isLoading' /\ ~isRefreshing')
        /\ (ev'.type = "resolve" /\ ev'.out.kind = "success" /\ Live
             /\ ev'.writes < 4)
            => (error' = error /\ InMemory' = ComputedFrom(ev'.out.data, clock))
      ]_vars

C13_Witness ==
    /\ Succeeded /\ Live /\ storageEnabled /\ ev.writes = 2
    /\ error = Null /\ InMemory = ComputedFrom(1, clock)
    /\ storage.data.st = "json" /\ storage.margin.st = "none"

\* C14: a step that changes the storage leaves it as a complete save would:
\* all four keys written by the one save.
C14_CacheWrittenAtomically ==
    [][ storage' # storage =>
            storage' = saveDataToCache(storage, TRUE,
                           ComputedFrom(ev'.out.data, clock)[1],
                           fetches[ev'.id].cap.spotHoldings,
                           fetches[ev'.id].cap.marginHoldings,
                           fetches[ev'.id].cap.futuresHoldings, 4) ]_vars

\* C15: the mount (the only caller of the load) leaves the storage as it
\* is, and no stored snapshot has a last_updated marked "(cached)".
C15_MarkerNotPersisted ==
    /\ [](storage.data.st = "json" => ~storage.data.val.last_updated.cached)
    /\ [][ ev'.type = "mount" => storage' = storage ]_vars

C15_Witness ==
    /\ ev.type = "mount" /\ portfolioData.last_updated.cached
    /\ portfolioData.last_updated.time = InvalidDate
    /\ storage.data.st = "json" /\ ~storage.data.val.last_updated.cached

----------------------------------------------------------------------------
(* Properties of the aggregation, over the responses of AggSpec. *)

\* The response has been aggregated and its result installed.
Aggregated == ev.type = "resolve" /\ ev.out.kind = "success"

SegmentOf(data, seg) ==
    CASE seg = "spot" -> data.spot_holdings
      [] seg = "margin" -> data.margin_holdings
      [] seg = "futures" -> data.futures_holdings

LastRecord(data, seg) ==
    SegmentOf(data, seg).entries[Len(SegmentOf(data, seg).entries)]

AllButLast(holdings) ==
    [holdings EXCEPT !.entries = SubSeq(holdings.entries, 1, Len(holdings.entries) - 1)]

\* The response without the last record of segment seg.
WithoutLast(data, seg) ==
    CASE seg = "spot" -> [data EXCEPT !.spot_holdings = AllButLast(@)]
      [] seg = "margin" -> [data EXCEPT !.margin_holdings = AllButLast(@)]
      [] seg = "futures" -> [data EXCEPT !.futures_holdings = AllButLast(@)]

\* The place of a segment's list in InMemory.
ListIndex(seg) ==
    CASE seg = "spot" -> 2 [] seg = "margin" -> 3 [] seg = "futures" -> 4

\* The fields of a raw record h after numeric coercion.
CoercedAmount(h) == OrElse(Number(h.amount), Fin(0))
CoercedPrice(h) == OrElse(Number(h.price_usd), Fin(0))
CoercedTotal(h) ==
    OrElse(Number(h.total_usd), Mul(CoercedAmount(h), CoercedPrice(h)))

\* amount > 0, amount and price_usd finite, total_usd > 0
PassesFilter(h) ==
    /\ Gt0(CoercedAmount(h)) /\ IsFin(CoercedAmount(h))
    /\ IsFin(CoercedPrice(h)) /\ Gt0(CoercedTotal(h))

\* What record r of segment seg adds to the state `without` computed from
\* the response without it, when it passes the filter and when it does not.
AddsToAggregation(r, seg, without) ==
    IF PassesFilter(r.h)
    THEN /\ Len(InMemory[ListIndex(seg)]) = Len(without[ListIndex(seg)]) + 1
         /\ \A i \in 1..Len(without[ListIndex(seg)]) :
                InMemory[ListIndex(seg)][i] = without[ListIndex(seg)][i]
         /\ LET last == InMemory[ListIndex(seg)][Len(InMemory[ListIndex(seg)])]
            IN  /\ last.symbol = SymbolOf(r.key, seg)
                /\ last.amount = CoercedAmount(r.h)
                /\ last.total_usd = CoercedTotal(r.h)
         /\ portfolioData.total_value =
                Add(without[1].total_value, CoercedTotal(r.h))
    ELSE InMemory = without

\* C16: the last record of each segment is in its segment's list, and its
\* total_usd in total_value, exactly when it passes the filter (amount > 0,
\* amount and price_usd finite, total_usd > 0, after coercion); when it
\* does not, the snapshot and the lists are those of the response without
\* the record.
C16_FilterDecidesInclusion ==
    Aggregated =>
        \A seg \in AggSegments :
            SegmentOf(response, seg).entries # <<>> =>
                AddsToAggregation(LastRecord(response, seg), seg,
                    InstalledFrom(calculateValues(WithoutLast(response, seg)),
                                  WithoutLast(response, seg), clock))

\* The last record of segment seg is in the segment's list in memory (the
\* records before it all pass the filter).
LastIsListed(seg) ==
    Len(InMemory[ListIndex(seg)]) = Len(SegmentOf(response, seg).entries)

\* The total_usd of a record: the supplied one, amount * price_usd when
\* none is supplied.
SuppliedTotal(h) ==
    IF h.total_usd # Undefined THEN Number(h.total_usd)
    ELSE Mul(CoercedAmount(h), CoercedPrice(h))

\* C17: the total_usd the filter tests and the list carries is the one the
\* record supplies, and amount * price_usd only when it supplies none.
C17_SuppliedTotalWins ==
    Aggregated =>
        \A seg \in AggSegments :
            SegmentOf(response, seg).entries # <<>> =>
                LET h == LastRecord(response, seg).h
                    list == InMemory[ListIndex(seg)]
                IN  /\ LastIsListed(seg) <=>
                           /\ Gt0(CoercedAmount(h)) /\ IsFin(CoercedAmount(h))
                           /\ IsFin(CoercedPrice(h)) /\ Gt0(SuppliedTotal(h))
                    /\ LastIsListed(seg) =>
                           list[Len(list)].total_usd = SuppliedTotal(h)

\* The included holdings: the three lists in memory, one after the other.
IncludedHoldings == spotHoldings \o marginHoldings \o futuresHoldings

\* C18: when no included holding has a change_24h, the snapshot's
\* change_24h is the response's top-level change_24h, and 0 when that is
\* absent or not finite.
C18_TopLevelChangeFallback ==
    (Aggregated /\ \A i \in 1..Len(IncludedHoldings) :
                      IncludedHoldings[i].change_24h = Undefined)
    => portfolioData.change_24h =
          (IF IsFin(Number(response.change_24h)) THEN Number(response.change_24h)
           ELSE Fin(0))

\* The raw records of the three segments, in processing order.
EntriesOf(holdings) == IF holdings.present THEN holdings.entries ELSE <<>>
RawRecords(data) ==
    EntriesOf(data.spot_holdings) \o EntriesOf(data.margin_holdings)
        \o EntriesOf(data.futures_holdings)

\* An included record that carries a change_24h: a finite number.
CarriesChange(e) == PassesFilter(e.h) /\ IsFin(e.h.change_24h)

\* sum(change_24h * total_usd) and sum(total_usd) over the included
\* records that carry a change_24h.
RECURSIVE SumWeightedChange(_)
SumWeightedChange(entries) ==
    IF entries = <<>> THEN Fin(0)
    ELSE IF CarriesChange(Head(entries))
         THEN Add(Mul(Head(entries).h.change_24h, CoercedTotal(Head(entries).h)),
                  SumWeightedChange(Tail(entries)))
         ELSE SumWeightedChange(Tail(entries))

RECURSIVE SumCarryingTotal(_)
SumCarryingTotal(entries) ==
    IF entries = <<>> THEN Fin(0)
    ELSE IF CarriesChange(Head(entries))
         THEN Add(CoercedTotal(Head(entries).h), SumCarryingTotal(Tail(entries)))
         ELSE SumCarryingTotal(Tail(entries))

\* C19: when an included record carries a finite change_24h, the snapshot's
\* change_24h is sum(change_24h * total_usd) / sum(total_usd) over the
\* included records that carry one; the others are in neither sum.
C19_WeightedChange ==
    (Aggregated /\ \E i \in 1..Len(RawRecords(response)) :
                       CarriesChange(RawRecords(response)[i]))
    => portfolioData.change_24h =
           Div(SumWeightedChange(RawRecords(response)),
               SumCarryingTotal(RawRecords(response)))

\* The sums of the percentages and of the values of allocation entries.
RECURSIVE SumPercentage(_)
SumPercentage(items) ==
    IF items = <<>> THEN Fin(0)
    ELSE Add(Head(items).percentage, SumPercentage(Tail(items)))

RECURSIVE SumValue(_)
SumValue(items) ==
    IF items = <<>> THEN Fin(0)
    ELSE Add(Head(items).value, SumValue(Tail(items)))

\* C20: after an aggregation with total_value > 0 every asset_allocation
\* entry has percentage 100 * value / total_value, the values sum to
\* total_value and the percentages to 100; with total_value 0 the
\* asset_allocation is empty.
C20_AllocationPercentages ==
    Aggregated =>
        LET items == portfolioData.asset_allocation.items
            total == portfolioData.total_value
        IN  IF Gt0(total)
            THEN /\ \A i \in 1..Len(items) :
                        items[i].percentage = Mul(Fin(100), Div(items[i].value, total))
                 /\ SumValue(items) = total
                 /\ SumPercentage(items) = Fin(100)
            ELSE total = Fin(0) /\ items = <<>>

\* The symbol a key stands for: its part before the first '_', for futures
\* without a trailing USDT.
KeySymbol(key, seg) ==
    IF seg = "futures" /\ key[1] # <<>> /\ key[1][Len(key[1])] = "USDT"
    THEN SubSeq(key[1], 1, Len(key[1]) - 1)
    ELSE key[1]

\* The symbols of the included records of a response.
IncludedSymbols(data) ==
    UNION { { KeySymbol(EntriesOf(SegmentOf(data, seg))[i].key, seg) :
                i \in { j \in 1..Len(EntriesOf(SegmentOf(data, seg))) :
                           PassesFilter(EntriesOf(SegmentOf(data, seg))[j].h) } } :
            seg \in AggSegments }

\* The sum of total_usd over the included records of a segment that stand
\* for symbol sym.
RECURSIVE SumOfSymbol(_, _, _)
SumOfSymbol(entries, seg, sym) ==
    IF entries = <<>> THEN Fin(0)
    ELSE IF PassesFilter(Head(entries).h) /\ KeySymbol(Head(entries).key, seg) = sym
         THEN Add(CoercedTotal(Head(entries).h), SumOfSymbol(Tail(entries), seg, sym))
         ELSE SumOfSymbol(Tail(entries), seg, sym)

SymbolTotal(data, sym) ==
    Add(Add(SumOfSymbol(EntriesOf(data.spot_holdings), "spot", sym),
            SumOfSymbol(EntriesOf(data.margin_holdings), "margin", sym)),
        SumOfSymbol(EntriesOf(data.futures_holdings), "futures", sym))

\* C21: after an aggregation the asset_allocation has exactly one entry for
\* each symbol of an included record, the symbol being the key's part
\* before the first '_' and for futures without its trailing USDT; the
\* entry's value is the sum of total_usd over the included records of the
\* three segments with that symbol, and there is no other entry.
C21_OneEntryPerSymbol ==
    Aggregated =>
        LET items == portfolioData.asset_allocation.items
        IN  /\ \A sym \in IncludedSymbols(response) :
                   /\ Cardinality({i \in 1..Len(items) : items[i].asset = sym}) = 1
                   /\ \A i \in 1..Len(items) :
                          items[i].asset = sym =>
                              items[i].value = SymbolTotal(response, sym)
            /\ \A i \in 1..Len(items) :
                   items[i].asset \in IncludedSymbols(response)

\* The distinct symbols of the included holdings.
DistinctSymbols ==
    { IncludedHoldings[i].symbol : i \in 1..Len(IncludedHoldings) }

\* C22: after an aggregation holdings_count is the number of distinct
\* symbols among the included holdings of the three segments, and the sum
\* of the three raw record counts only when that number is 0.
C22_HoldingsCount ==
    Aggregated =>
        portfolioData.holdings_count =
            (IF Cardinality(DistinctSymbols) > 0 THEN Cardinality(DistinctSymbols)
             ELSE KeyCount(response.spot_holdings)
                  + KeyCount(response.margin_holdings)
                  + KeyCount(response.futures_holdings))

\* C22: three included holdings of two symbols (BTC in two segments) have
\* been counted as 2.
C22_Witness ==
    /\ Aggregated
    /\ Len(IncludedHoldings) = 3
    /\ Cardinality(DistinctSymbols) = 2
    /\ portfolioData.holdings_count = 2

\* The sector of the static table for an asset, "Other" for an asset the
\* table does not list.
TableSector(asset) ==
    IF asset \in DOMAIN sectorMap THEN sectorMap[asset] ELSE "Other"

\* The sum of the values of the asset entries of a sector.
RECURSIVE SumOfSector(_, _)
SumOfSector(items, sector) ==
    IF items = <<>> THEN Fin(0)
    ELSE IF TableSector(Head(items).asset) = sector
         THEN Add(Head(items).value, SumOfSector(Tail(items), sector))
         ELSE SumOfSector(Tail(items), sector)

\* C23: after an aggregation the sector_allocation has exactly one entry
\* for each sector that the static table gives for an asset_allocation
\* entry ("Other" for a symbol the table does not list) and no other; the
\* entry's value is the sum of the values of the sector's assets, its
\* percentage 100 * value / total_value, and the sector values sum to
\* total_value.
C23_SectorAllocation ==
    Aggregated =>
        LET assets == portfolioData.asset_allocation.items
            sectors == portfolioData.sector_allocation.items
            total == portfolioData.total_value
        IN  /\ { sectors[j].asset : j \in 1..Len(sectors) } =
                   { TableSector(assets[i].asset) : i \in 1..Len(assets) }
            /\ \A j, k \in 1..Len(sectors) :
                   sectors[j].asset = sectors[k].asset => j = k
            /\ \A j \in 1..Len(sectors) :
                   /\ sectors[j].value = SumOfSector(assets, sectors[j].asset)
                   /\ sectors[j].percentage =
                          Mul(Fin(100), Div(sectors[j].value, total))
            /\ SumValue(sectors) = total

\* The handler's result is well formed: it returned, with status 'success'
\* or 'error' and a non-empty string data.response.
WellFormed(result) ==
    /\ ~result.threw
    /\ result.status \in {QString(<<"success">>), QString(<<"error">>)}
    /\ result.response.t = "string"
    /\ result.response.s # <<>>

\* The backend call ended in a success: it resolved with status 'success'.
SuccessStatus(o) ==
    o.kind = "resolved" /\ o.isObject /\ o.status = QString(<<"success">>)

\* C24: however the backend call settles, handlePortfolioQuery does not
\* throw and returns status 'success' or 'error' with a non-empty string
\* data.response; an outcome other than status 'success' gives status
\* 'error' with a data.message; and isChatLoading is false when the handler
\* has returned.
C24_QueryAlwaysAnswers ==
    [][returned' # returned =>
          /\ WellFormed(returned'.result)
          /\ ~SuccessStatus(returned'.outcome) =>
                 /\ returned'.result.status = QString(<<"error">>)
                 /\ returned'.result.message.t # "undefined"
          /\ SuccessStatus(returned'.outcome) =>
                 returned'.result.status = QString(<<"success">>)
          /\ isChatLoading' = FALSE]_vars

\* C24: a query whose backend call was rejected has returned status
\* 'error' and the chat no longer loads.
C24_Witness ==
    /\ returned.id # 0
    /\ returned.outcome.kind = "rejected"
    /\ returned.result.status = QString(<<"error">>)
    /\ ~isChatLoading

\* C25: after a mount whose load has thrown (storage disabled, or an item
\* that does not parse, whichever items were read before it) nothing of the
\* cache is in memory: the snapshot and the three lists have their initial
\* empty values.
C25_ThrowingLoadInstallsNothing ==
    (ev.type = "mount" /\ (~storageEnabled \/ FirstCorrupt(storage) <= 4))
    => InMemory = <<InitialPortfolioData, <<>>, <<>>, <<>>>>

\* A fetch of the given kind is in flight.
InFlight(isBackgroundRefresh) ==
    \E i \in 1..Len(fetches) :
        fetches[i].pending /\ fetches[i].bg = isBackgroundRefresh

\* C26: while the view is mounted, isRefreshing is true whenever a
\* background fetch is in flight and isLoading is true whenever a
\* foreground fetch is in flight, also when fetches of one kind overlap.
C26_FlagsTrackFetches ==
    Live => /\ InFlight(TRUE) => isRefreshing
            /\ InFlight(FALSE) => isLoading

\* C27: while the view is mounted, both flags are false whenever no fetch
\* is in flight, and, every backend call settling in the end, a flag that
\* is set is cleared later (or the view is unmounted).
C27_FlagsCleared ==
    /\ [](Live /\ ~InFlight(TRUE) /\ ~InFlight(FALSE)
            => ~isLoading /\ ~isRefreshing)
    /\ (Live /\ isLoading) ~> (~isLoading \/ ~Live)
    /\ (Live /\ isRefreshing) ~> (~isRefreshing \/ ~Live)

\* C27: a foreground and a background fetch have both settled, no fetch is
\* in flight and both flags are false.
C27_Witness ==
    /\ Live /\ ~InFlight(TRUE) /\ ~InFlight(FALSE)
    /\ \E i, j \in 1..Len(fetches) : fetches[i].bg /\ ~fetches[j].bg
    /\ ~isLoading /\ ~isRefreshing

\* The sum of total_usd over a list of holdings.
RECURSIVE SumTotalUsd(_)
SumTotalUsd(list) ==
    IF list = <<>> THEN Fin(0)
    ELSE Add(Head(list).total_usd, SumTotalUsd(Tail(list)))

\* The snapshot agrees with the lists.
SnapshotMatchesLists ==
    /\ portfolioData.spot_value = SumTotalUsd(spotHoldings)
    /\ portfolioData.margin_value = SumTotalUsd(marginHoldings)
    /\ portfolioData.futures_value = SumTotalUsd(futuresHoldings)
    /\ portfolioData.total_value =
           Add(Add(portfolioData.spot_value, portfolioData.margin_value),
               portfolioData.futures_value)

\* C28: in every state of the mounted view spot_value, margin_value and
\* futures_value are the sums of total_usd over the spot, margin and
\* futures lists and total_value is their sum, whether the state is the
\* initial one, painted from the cache, computed from a response or the
\* fallback sample.
C28_SnapshotMatchesLists == Live => SnapshotMatchesLists

\* C29: neither the step in which a background refresh starts nor the step
\* in which it fails changes the error: a message shown by an earlier
\* failed foreground fetch is still there when the refresh has failed.
C29_BackgroundRefreshKeepsError ==
    [][ /\ (ev' # ev /\ ev'.type \in {"mount", "tick"} /\ fetches'[ev'.id].bg)
            => error' = error
        /\ (ev' # ev /\ Live /\ ev'.type = "resolve" /\ ev'.out.kind # "success"
             /\ fetches[ev'.id].bg)
            => error' = error ]_vars

\* C30: a step taken after the unmount changes neither the cache nor the
\* snapshot, the lists, the error or the flags in memory.
C30_NothingWrittenAfterUnmount ==
    [][ phase = "unmounted" =>
            /\ storage' = storage
            /\ InMemory' = InMemory
            /\ error' = error
            /\ isLoading' = isLoading
            /\ isRefreshing' = isRefreshing ]_vars

====
